---- MODULE Spec2Model ----
(***************************************************************************)
(* Model of the IT helpdesk ticketing application: the SLA calculator      *)
(* (services/sla_service.py), the ticket lifecycle                         *)
(* (services/request_service.py, models/request.py, models/status.py) and  *)
(* the history log (repositories/request_history_repository.py).           *)
(*                                                                         *)
(* Datetimes are integers: minutes since Monday 00:00 of week 0.           *)
(* Quantities the code holds as float hours are held in minutes (1/60 h),  *)
(* which is exact for minute-granular datetimes.  Values the code rounds   *)
(* to two decimals are held in hundredths.                                 *)
(***************************************************************************)
EXTENDS Integers, Sequences, FiniteSets, TLC

VARIABLES
    now,        \* the wall clock, datetime.now()
    req,        \* the Request object handed to SLAService
    out,        \* the last SLAService call and what it returned
    checked,    \* the first check_sla_compliance result since req last changed
    requests,   \* table requests: id -> row
    history,    \* table request_history: sequence of rows, in insertion order
    statuses,   \* table statuses: id -> row
    result,     \* the last RequestService / repository call and its outcome
    sqlite_sequence  \* the last id each table has handed out (AUTOINCREMENT)

slaVars == <<req, out, checked>>
lifeVars == <<requests, history, statuses, result, sqlite_sequence>>
vars == <<now, req, out, checked, requests, history, statuses, result,
         sqlite_sequence>>

\* Python's None, for Optional[datetime] and Optional[int] fields.
None == 0 - 1

----------------------------------------------------------------------------
\* Bounds of the model.

\* start instants range over the hours 0..MaxStartHour of week 0
MaxStartHour == 167
\* sla_hours handed to calculate_due_date range over 1..MaxSlaHours
MaxSlaHours == 10
\* end instants lie up to MaxSpanHours hours after the start
MaxSpanHours == 66

\* minute-of-hour of the instants drawn
MinuteOffsets == {0, 30}

StartTimes == {h * 60 + m : h \in 0..MaxStartHour, m \in MinuteOffsets}

\* creation instants of the tickets drawn: every hour of the week
TicketTimes == {h * 60 : h \in 0..MaxStartHour}

----------------------------------------------------------------------------
\* config.py

SLA_LIMITS == [critical |-> 2, high |-> 8, medium |-> 24, low |-> 72]
PRIORITIES == {"critical", "high", "medium", "low"}
WORK_HOURS_START == 9
WORK_HOURS_END == 18
WORK_DAYS == {0, 1, 2, 3, 4}

----------------------------------------------------------------------------
\* datetime

\* datetime.weekday(): 0 is Monday
weekday(dt) == (dt \div 1440) % 7
\* datetime.hour
hour(dt) == (dt \div 60) % 24
\* dt + timedelta(hours=h)
PlusHours(dt, h) == dt + h * 60

----------------------------------------------------------------------------
\* services/sla_service.py

\* mutant: Saturday is taken for a working day
_is_working_hour_sat(dt) ==
    IF weekday(dt) >= 6 THEN FALSE
    ELSE IF hour(dt) < WORK_HOURS_START \/ hour(dt) >= WORK_HOURS_END THEN FALSE
    ELSE TRUE

_is_working_hour(dt) ==
    IF weekday(dt) >= 5 THEN FALSE
    ELSE IF hour(dt) < WORK_HOURS_START \/ hour(dt) >= WORK_HOURS_END THEN FALSE
    ELSE TRUE

RECURSIVE DueDateSteps(_, _, _)
\* at most n iterations of the while loop of calculate_due_date
DueDateSteps(current, remaining_hours, n) ==
    IF n > 0 /\ remaining_hours > 0
    THEN LET next == PlusHours(current, 1)
         IN  DueDateSteps(next,
                          IF _is_working_hour(next)
                          THEN remaining_hours - 1
                          ELSE remaining_hours,
                          n - 1)
    ELSE <<current, remaining_hours>>

RECURSIVE DueDateLoop(_, _)
\* the while loop of calculate_due_date, run 24 iterations at a time
DueDateLoop(current, remaining_hours) ==
    IF remaining_hours > 0
    THEN LET s == DueDateSteps(current, remaining_hours, 24)
         IN  DueDateLoop(s[1], s[2])
    ELSE current

\* DueDateLoop tabulated once on the tickets the specifications draw
DueDateMemo ==
    [a \in {<<t, SLA_LIMITS[p]>> : t \in TicketTimes, p \in DOMAIN SLA_LIMITS}
        |-> DueDateLoop(a[1], a[2])]

calculate_due_date(start_date, sla_hours, critical) ==
    IF critical
    THEN PlusHours(start_date, sla_hours)
    ELSE IF <<start_date, sla_hours>> \in DOMAIN DueDateMemo
         THEN DueDateMemo[<<start_date, sla_hours>>]
         ELSE DueDateLoop(start_date, sla_hours)

RECURSIVE WorkHoursSteps(_, _, _, _)
\* at most n iterations of the while loop of _calculate_work_hours
WorkHoursSteps(current, end, total_hours, n) ==
    IF n > 0 /\ current < end
    THEN WorkHoursSteps(PlusHours(current, 1), end,
                        IF _is_working_hour(current)
                        THEN total_hours + 1
                        ELSE total_hours,
                        n - 1)
    ELSE <<current, total_hours>>

RECURSIVE WorkHoursLoop(_, _, _)
\* the while loop of _calculate_work_hours, run 24 iterations at a time;
\* total_hours counts whole hours
WorkHoursLoop(current, end, total_hours) ==
    IF current < end
    THEN LET s == WorkHoursSteps(current, end, total_hours, 24)
         IN  WorkHoursLoop(s[1], end, s[2])
    ELSE total_hours

\* the instants a ticket created at t is measured at: its due date under each
\* priority's limit, one hour and one day after it
MeasureTimes(t) ==
    UNION {LET due == calculate_due_date(t, SLA_LIMITS[p], p = "critical")
           IN  {due, due + 60, due + 1440} : p \in DOMAIN SLA_LIMITS}

\* WorkHoursLoop tabulated once on the tickets the specifications draw
WorkHoursMemo ==
    [a \in UNION {{<<t, e>> : e \in MeasureTimes(t)} : t \in TicketTimes}
        |-> WorkHoursLoop(a[1], a[2], 0)]

\* _calculate_work_hours counting only the hours of the day end falls on
_calculate_work_hours_today(start, end) ==
    IF start >= end THEN 0
    ELSE LET midnight == end - (end % (24 * 60))
             from == IF start >= midnight THEN start
                     ELSE midnight + (start % 60)
         IN WorkHoursLoop(from, end, 0) * 60

\* in minutes
_calculate_work_hours(start, end) ==
    IF start >= end THEN 0
    ELSE IF <<start, end>> \in DOMAIN WorkHoursMemo
         THEN WorkHoursMemo[<<start, end>>] * 60
         ELSE WorkHoursLoop(start, end, 0) * 60

\* mutant: critical tickets are measured in business hours like the others
_calculate_elapsed_hours_business(start, end, critical) ==
    IF start >= end THEN 0
    ELSE _calculate_work_hours(start, end)

\* in minutes: delta.total_seconds() / 3600 hours is (end - start) minutes
_calculate_elapsed_hours(start, end, critical) ==
    IF start >= end THEN 0
    ELSE IF critical THEN end - start
    ELSE _calculate_work_hours(start, end)

_get_sla_limit(request) ==
    IF request.priority \in DOMAIN SLA_LIMITS
    THEN SLA_LIMITS[request.priority]
    ELSE 24

\* round(n / d, 0) on the exact quotient, ties to even as Python's round
RoundDiv(n, d) ==
    LET q == n \div d
        r == n % d
    IN  IF 2 * r < d THEN q
        ELSE IF 2 * r > d THEN q + 1
        ELSE IF q % 2 = 0 THEN q ELSE q + 1

Min(a, b) == IF a <= b THEN a ELSE b
Max(a, b) == IF a >= b THEN a ELSE b

\* models/request.py
is_critical(request) == request.priority = "critical"
is_finished(request) == request.status_id \in {3, 4, 5}

\* the except branch of calculate_sla reporting a breach
SlaFallback_breached ==
    [is_compliant |-> FALSE, elapsed_hours |-> 0, sla_limit |-> 24,
     percentage |-> 0, remaining_hours |-> 2400, overrun_hours |-> 0,
     due_date |-> None, raised |-> TRUE]

\* the except branch of calculate_sla
SlaFallback ==
    [is_compliant |-> TRUE, elapsed_hours |-> 0, sla_limit |-> 24,
     percentage |-> 0, remaining_hours |-> 2400, overrun_hours |-> 0,
     due_date |-> None, raised |-> TRUE]

\* calculate_sla at the instant clock = datetime.now().  elapsed_hours,
\* remaining_hours, overrun_hours and percentage are in hundredths (round(x, 2)).
\* Comparing or subtracting a None created_at raises TypeError inside the try.
calculate_sla(request, clock) ==
    IF request.created_at = None
    THEN SlaFallback
    ELSE
    LET sla_limit == _get_sla_limit(request)
        current_time == IF request.resolved_at # None
                        THEN request.resolved_at ELSE clock
        elapsed == _calculate_elapsed_hours(request.created_at, current_time,
                                            is_critical(request))
        limit == sla_limit * 60
        is_compliant == elapsed <= limit
        percentage == IF sla_limit > 0
                      THEN Min(10000, RoundDiv(elapsed * 10000, limit))
                      ELSE 0
        remaining == Max(0, limit - elapsed)
        overrun == IF ~is_compliant THEN Max(0, elapsed - limit) ELSE 0
    IN  [is_compliant |-> is_compliant,
         elapsed_hours |-> RoundDiv(elapsed * 100, 60),
         sla_limit |-> sla_limit,
         percentage |-> percentage,
         remaining_hours |-> RoundDiv(remaining * 100, 60),
         overrun_hours |-> RoundDiv(overrun * 100, 60),
         due_date |-> calculate_due_date(request.created_at, sla_limit,
                                         is_critical(request)),
         raised |-> FALSE]

\* mutant: a finished ticket is measured up to the clock, not to resolved_at
check_sla_compliance_live(request, clock) ==
    IF is_finished(request)
    THEN IF request.resolved_at # None /\ request.created_at # None
         THEN _calculate_elapsed_hours(request.created_at, clock,
                                       is_critical(request))
                  <= _get_sla_limit(request) * 60
         ELSE TRUE
    ELSE calculate_sla(request, clock).is_compliant

check_sla_compliance(request, clock) ==
    IF is_finished(request)
    THEN IF request.resolved_at # None /\ request.created_at # None
         THEN _calculate_elapsed_hours(request.created_at, request.resolved_at,
                                       is_critical(request))
                  <= _get_sla_limit(request) * 60
         ELSE TRUE
    ELSE calculate_sla(request, clock).is_compliant

----------------------------------------------------------------------------
\* State shared by the specifications.

NoCall == [op |-> "none"]

\* A Request as the SLA calculator reads it.
NewRequest(created_at, priority) ==
    [id |-> None, requester_id |-> None, assignee_id |-> None,
     category_id |-> None, status_id |-> 1, priority |-> priority,
     created_at |-> created_at, updated_at |-> created_at,
     resolved_at |-> None, closed_at |-> None, sla_due_date |-> None,
     actual_hours |-> None, is_deleted |-> FALSE]

\* Request.calculate_resolution_time(), in minutes
calculate_resolution_time(request) ==
    IF request.resolved_at = None \/ request.created_at = None THEN None
    ELSE request.resolved_at - request.created_at

is_new(request) == request.status_id = 1

\* Request.resolve() at the given reading of the clock
resolve(request, clock) ==
    IF ~is_finished(request)
    THEN LET r == [request EXCEPT !.status_id = 3, !.resolved_at = clock,
                                  !.updated_at = clock]
         IN IF r.created_at # None
            THEN [r EXCEPT !.actual_hours = calculate_resolution_time(r)]
            ELSE r
    ELSE request

\* A row of table statuses as Status.from_db_row reads it. next_statuses and
\* allowed_roles are held as sets: the code only tests membership, and an
\* empty list is stored as NULL, so {} stands for both empty and absent.
Status(id, is_initial, is_final) ==
    [id |-> id, is_initial |-> is_initial, is_final |-> is_final,
     requires_comment |-> FALSE, allowed_roles |-> {}, next_statuses |-> {}]

STANDARD_STATUSES ==
    [id \in 1..5 |-> Status(id, id = 1, id \in {3, 4, 5})]

\* mutant: an empty allow-list allows nothing
can_transition_to_closed(status, status_id) ==
    status_id \in status.next_statuses

can_transition_to(status, status_id) ==
    IF status.next_statuses = {} THEN TRUE
    ELSE status_id \in status.next_statuses

is_allowed_for_role(status, role) ==
    IF status.allowed_roles = {} THEN TRUE
    ELSE role \in status.allowed_roles

\* table users: id -> role
USERS == (1 :> "requester") @@ (2 :> "executor") @@ (3 :> "admin")

is_executor(role) == role = "executor" \/ role = "admin"

\* table categories: id -> sla_hours
CATEGORIES == (1 :> 24) @@ (4 :> 8)

\* The tables as DatabaseManager leaves them: the five statuses, no ticket.
LifeInit ==
    /\ requests = <<>>
    /\ history = <<>>
    /\ statuses = STANDARD_STATUSES
    /\ result = NoCall
    /\ sqlite_sequence = [requests |-> 0, request_history |-> 0]

----------------------------------------------------------------------------
\* SpecCalendar: calls of the business-hours arithmetic on drawn instants.

EndTimes(start) ==
    {start + k * 60 + m : k \in (0 - 1)..MaxSpanHours, m \in MinuteOffsets}

InitCalendar ==
    /\ req \in {NewRequest(t, "medium") : t \in StartTimes}
    /\ now = req.created_at
    /\ out = NoCall
    /\ checked = NoCall
    /\ LifeInit

\* a caller asks for the due date of sla_hours from the start instant
CallCalculateDueDate ==
    /\ out.op = "none"
    /\ \E sla_hours \in 1..MaxSlaHours, critical \in BOOLEAN :
          out' = [op |-> "calculate_due_date", start |-> req.created_at,
                  sla_hours |-> sla_hours, critical |-> critical,
                  value |-> calculate_due_date(req.created_at, sla_hours, critical)]
    /\ UNCHANGED <<now, req, checked, lifeVars>>

\* a caller measures the elapsed hours between the start and a drawn end
CallCalculateElapsedHours ==
    /\ out.op = "none"
    /\ \E end \in EndTimes(req.created_at), critical \in BOOLEAN :
          out' = [op |-> "_calculate_elapsed_hours", start |-> req.created_at,
                  end |-> end, critical |-> critical, due |-> NoCall,
                  value |-> _calculate_elapsed_hours(req.created_at, end, critical)]
    /\ UNCHANGED <<now, req, checked, lifeVars>>

\* a caller feeds the due date just computed back into the elapsed hours
CallElapsedToDueDate ==
    /\ out.op = "calculate_due_date"
    /\ out' = [op |-> "_calculate_elapsed_hours", start |-> out.start,
               end |-> out.value, critical |-> out.critical, due |-> out,
               value |-> _calculate_elapsed_hours(out.start, out.value, out.critical)]
    /\ UNCHANGED <<now, req, checked, lifeVars>>

NextCalendar ==
    \/ CallCalculateDueDate
    \/ CallCalculateElapsedHours
    \/ CallElapsedToDueDate

SpecCalendar == InitCalendar /\ [][NextCalendar]_vars

----------------------------------------------------------------------------
\* SpecSla: one ticket, the clock, and the SLA reports made on the ticket.

\* the instants the clock is read at: the ticket's due date, one hour and one
\* day after it
ClockTimes(request) ==
    LET due == calculate_due_date(request.created_at, _get_sla_limit(request),
                                  is_critical(request))
    IN  {due, due + 60, due + 1440}

InitSla ==
    /\ req \in {NewRequest(t, p) : t \in TicketTimes, p \in PRIORITIES}
    /\ now = req.created_at
    /\ out = NoCall
    /\ checked = NoCall
    /\ LifeInit

\* time passes
AdvanceClock ==
    /\ \E t \in ClockTimes(req) : t > now /\ now' = t
    /\ UNCHANGED <<slaVars, lifeVars>>

\* Request.resolve()
RequestResolve ==
    /\ req' = resolve(req, now)
    /\ req' # req
    /\ checked' = NoCall
    /\ UNCHANGED <<now, out, lifeVars>>

\* the ticket as RequestService.change_status(2) leaves it: reopened, with its
\* resolved_at kept
RequestReopened ==
    /\ req.status_id = 3
    /\ req' = [req EXCEPT !.status_id = 2]
    /\ UNCHANGED <<now, out, checked, lifeVars>>

\* SLAService.calculate_sla(req)
CallCalculateSla ==
    /\ out' = [op |-> "calculate_sla", now |-> now, request |-> req,
               value |-> calculate_sla(req, now)]
    /\ UNCHANGED <<now, req, checked, lifeVars>>

\* SLAService.check_sla_compliance(req)
CallCheckSlaCompliance ==
    LET value == check_sla_compliance(req, now)
    IN  /\ out' = [op |-> "check_sla_compliance", now |-> now, request |-> req,
                   value |-> value]
        /\ checked' = IF checked.op = "none"
                      THEN [op |-> "check_sla_compliance", now |-> now,
                            value |-> value]
                      ELSE checked
        /\ UNCHANGED <<now, req, lifeVars>>

\* SLAService._calculate_elapsed_hours as calculate_sla calls it
CallElapsedOfRequest ==
    LET current_time == IF req.resolved_at # None THEN req.resolved_at ELSE now
    IN  /\ out' = [op |-> "_calculate_elapsed_hours", now |-> now, request |-> req,
                   start |-> req.created_at, end |-> current_time,
                   critical |-> is_critical(req),
                   value |-> _calculate_elapsed_hours(req.created_at, current_time,
                                                      is_critical(req))]
        /\ UNCHANGED <<now, req, checked, lifeVars>>

NextSla ==
    \/ AdvanceClock
    \/ RequestResolve
    \/ RequestReopened
    \/ CallCalculateSla
    \/ CallCheckSlaCompliance
    \/ CallElapsedOfRequest

SpecSla == InitSla /\ [][NextSla]_vars

----------------------------------------------------------------------------
\* Spec: RequestService and the repositories over the tables.

MaxRequests == 1
MaxHistory == 2
MaxTicks == 1
MaxConfigured == 1

\* Monday 08:00
LifeStart == 8 * 60

\* Optional[str] columns hold this for None
NoneStr == "None"

\* ids callers pass: the tickets that can exist and one that never does
RequestIds == 1..(MaxRequests + 1)
TargetStatusIds == DOMAIN STANDARD_STATUSES
\* an executor and an id that is in no row of users
ActorIds == {2, 4}
\* a requester, an executor and an id that is in no row of users
AssigneeIds == {1, 2, 4}
Comments == {"done"}
Titles == {"abc", "Printer broken"}
CreatePriorities == {"medium", "critical"}
\* a category and an id that is in no row of categories
CategoryIds == {1, 9}
\* whether the database takes the write of a ticket or of a status
SaveOutcomes == BOOLEAN
\* whether the database takes the insert of a history row
LogOutcomes == {TRUE}
\* what update_request is asked to change
UpdateData ==
    {[status_id |-> 3], [priority |-> "high"],
     [status_id |-> 3, priority |-> "high"]}
\* the statuses the administrator configures and the lists offered for them
ConfigurableStatusIds == {1, 3}
NextStatusLists == {{2, 3}}

HistoryRoom(rows) == sqlite_sequence.request_history + Len(rows) <= MaxHistory

\* what a call left behind: the call, the ticket and the status it named, the
\* status the ticket had, whether it returned a true value, the error it
\* raised, whether RequestHistoryRepository.create failed on a row, and the
\* notify_ method of NotificationService it called
Outcome(op, request_id, status_id, old_status_id, ok, raised, history_failed) ==
    [op |-> op, request_id |-> request_id, status_id |-> status_id,
     old_status_id |-> old_status_id, ok |-> ok, raised |-> raised,
     history_failed |-> history_failed, notified |-> "none"]

\* the outcome of a call that went on to call NotificationService.notify_...
Notifying(outcome, sent, notify) ==
    IF sent THEN [outcome EXCEPT !.notified = notify] ELSE outcome

\* a call that changed no table
Returns(outcome) ==
    /\ result' = outcome
    /\ UNCHANGED <<requests, history, sqlite_sequence>>

\* the tables after a call: the requests table as given, created tickets
\* counted, and the history rows the call inserted, numbered by AUTOINCREMENT
Commit(requests_after, created, rows) ==
    /\ HistoryRoom(rows)
    /\ requests' = requests_after
    /\ history' = history \o [i \in 1..Len(rows) |->
                      [rows[i] EXCEPT !.id =
                           sqlite_sequence.request_history + i]]
    /\ sqlite_sequence' =
          [requests |-> sqlite_sequence.requests + created,
           request_history |-> sqlite_sequence.request_history + Len(rows)]

\* RequestRepository.update: the row is rewritten with updated_at = now()
Updated(request) ==
    [requests EXCEPT ![request.id] = [request EXCEPT !.updated_at = now]]

RequestHistory(request_id, action, old_value, new_value, comment, changed_by, field_name) ==
    [id |-> None, request_id |-> request_id, action |-> action,
     old_value |-> old_value, new_value |-> new_value, comment |-> comment,
     changed_by |-> changed_by, changed_at |-> now, field_name |-> field_name]

create_status_change(request_id, user_id, old_status, new_status, comment) ==
    RequestHistory(request_id, "status_change", ToString(old_status),
                   ToString(new_status), comment, user_id, "status_id")

\* the guards of change_status, in the order the code evaluates them
ChangeStatusGuards(request, new_status_id, changed_by) ==
    IF /\ request.status_id \in DOMAIN statuses
       /\ ~can_transition_to(statuses[request.status_id], new_status_id)
    THEN "transition"
    ELSE IF new_status_id \notin DOMAIN statuses THEN "none"
    ELSE IF changed_by \notin DOMAIN USERS THEN "AttributeError"
    ELSE IF ~is_allowed_for_role(statuses[new_status_id], USERS[changed_by])
    THEN "role"
    ELSE "none"

\* the ticket as change_status hands it to RequestRepository.update
ChangeStatusStamp(request, new_status_id) ==
    LET r == [request EXCEPT !.status_id = new_status_id, !.updated_at = now]
    IN IF new_status_id \in DOMAIN statuses /\ statuses[new_status_id].is_final
       THEN IF new_status_id = 3
            THEN LET d == [r EXCEPT !.resolved_at = now]
                 IN [d EXCEPT !.actual_hours = calculate_resolution_time(d)]
            ELSE IF new_status_id = 4 THEN [r EXCEPT !.closed_at = now]
            ELSE r
       ELSE r

\* RequestService.change_status, called with a new_status_id and a comment of
\* the sets given, the history insert ending as log_outcomes allows
ChangeStatusCall(new_status_ids, comments, log_outcomes) ==
    /\ \E request_id \in RequestIds :
          IF request_id \notin DOMAIN requests
          THEN Returns(Outcome("change_status", request_id, None, None,
                               FALSE, "not_found", FALSE))
          ELSE \E new_status_id \in new_status_ids, comment \in comments,
                  changed_by \in ActorIds :
               LET request == requests[request_id]
                   raised == ChangeStatusGuards(request, new_status_id,
                                                changed_by)
               IN IF raised # "none"
                  THEN Returns(Outcome("change_status", request_id,
                                       new_status_id, request.status_id,
                                       FALSE, raised, FALSE))
                  ELSE \E saved \in SaveOutcomes, logged \in log_outcomes :
                       /\ Commit(IF saved
                                 THEN Updated(ChangeStatusStamp(request,
                                                  new_status_id))
                                 ELSE requests,
                                 0,
                                 IF saved /\ logged
                                 THEN <<create_status_change(request_id,
                                            changed_by, request.status_id,
                                            new_status_id, comment)>>
                                 ELSE <<>>)
                       /\ result' = Notifying(
                              Outcome("change_status", request_id,
                                      new_status_id, request.status_id,
                                      saved, "none", saved /\ ~logged),
                              saved, "status_change")
    /\ UNCHANGED <<now, statuses, slaVars>>

\* RequestService.change_status
ChangeStatus == ChangeStatusCall(TargetStatusIds, Comments, LogOutcomes)

create_creation_record(request_id, user_id, request_data) ==
    RequestHistory(request_id, "create", NoneStr,
                   request_data.title \o "," \o request_data.priority,
                   NoneStr, user_id, NoneStr)

\* ValidationService.validate_request_data
validate_request_data(data) ==
    Len(data.title) >= 5 /\ data.priority \in PRIORITIES

\* get_initial_status with the flag of the query inverted
get_initial_status_unflagged ==
    IF \E id \in DOMAIN statuses : ~statuses[id].is_initial
    THEN CHOOSE id \in DOMAIN statuses : ~statuses[id].is_initial
    ELSE None

\* StatusRepository.get_initial_status: the id of an initial status, or None
get_initial_status ==
    IF \E id \in DOMAIN statuses : statuses[id].is_initial
    THEN CHOOSE id \in DOMAIN statuses : statuses[id].is_initial
    ELSE None

\* the guards of create_request, in the order the code evaluates them
CreateRequestGuards(request_data, created_by) ==
    IF ~validate_request_data(request_data) THEN "validation"
    ELSE IF created_by \notin DOMAIN USERS THEN "no_requester"
    ELSE IF request_data.category_id \notin DOMAIN CATEGORIES
    THEN "no_category"
    ELSE IF get_initial_status = None THEN "no_initial_status"
    ELSE "none"

\* RequestService.create_request
CreateRequest ==
    /\ sqlite_sequence.requests < MaxRequests
    /\ \E title \in Titles, priority \in CreatePriorities,
          category_id \in CategoryIds, created_by \in ActorIds :
          LET request_data == [title |-> title, priority |-> priority,
                               category_id |-> category_id]
              raised == CreateRequestGuards(request_data, created_by)
              new_id == sqlite_sequence.requests + 1
              request ==
                  [NewRequest(now, priority) EXCEPT
                      !.id = new_id, !.requester_id = created_by,
                      !.category_id = category_id,
                      !.status_id = get_initial_status,
                      !.sla_due_date =
                          calculate_due_date(now, CATEGORIES[category_id],
                                             priority = "critical")]
          IN IF raised # "none"
             THEN Returns(Outcome("create_request", None, None, None,
                                  FALSE, raised, FALSE))
             ELSE \E saved \in SaveOutcomes, logged \in LogOutcomes :
                  LET request_id == IF saved THEN new_id ELSE None
                  IN /\ Commit(IF saved THEN requests @@ (new_id :> request)
                               ELSE requests,
                               IF saved THEN 1 ELSE 0,
                               IF logged
                               THEN <<create_creation_record(request_id,
                                          created_by, request_data)>>
                               ELSE <<>>)
                     /\ result' = Notifying(
                            Outcome("create_request", request_id,
                                    get_initial_status, None, saved,
                                    "none", ~logged),
                            TRUE, "new_request")
    /\ UNCHANGED <<now, statuses, slaVars>>

create_field_change(request_id, user_id, field_name, old_value, new_value) ==
    RequestHistory(request_id, "field_change", old_value, new_value, NoneStr,
                   user_id, field_name)

\* RequestService._handle_status_change
_handle_status_change(request, new_status_id) ==
    IF new_status_id \in {3, 4, 5}
    THEN IF new_status_id = 3
         THEN LET d == [request EXCEPT !.resolved_at = now]
              IN [d EXCEPT !.actual_hours = calculate_resolution_time(d)]
         ELSE IF new_status_id = 4 THEN [request EXCEPT !.closed_at = now]
         ELSE request
    ELSE request

\* the fields update_request is asked about, in the order of update_data
UpdateFields == <<"status_id", "priority", "sla_due_date", "resolved_at">>

\* the fields the loop of update_request sets: those the ticket has
\* (the values drawn are never None)
FieldsSet(request, update_data) ==
    SelectSeq(UpdateFields,
              LAMBDA field : field \in DOMAIN update_data
                             /\ field \in DOMAIN request)

\* str(value) if value else None, as create_field_change stores a value
FieldText(field, value) ==
    IF field = "priority" THEN value
    ELSE IF value = None THEN NoneStr
    ELSE ToString(value)

\* the ticket as update_request hands it to RequestRepository.update
UpdateRequestStamp(request, update_data) ==
    LET fields == FieldsSet(request, update_data)
        set == [field \in DOMAIN request |->
                   IF field = "updated_at" THEN now
                   ELSE IF \E i \in DOMAIN fields : fields[i] = field
                   THEN update_data[field]
                   ELSE request[field]]
    IN IF "status_id" \in DOMAIN update_data
       THEN _handle_status_change(set, update_data.status_id)
       ELSE set

\* RequestService.update_request, called with an update_data of the set given
UpdateRequestCall(update_datas) ==
    /\ \E request_id \in RequestIds :
          IF request_id \notin DOMAIN requests
          THEN Returns(Outcome("update_request", request_id, None, None,
                               FALSE, "not_found", FALSE))
          ELSE \E update_data \in update_datas, updated_by \in ActorIds,
                  saved \in SaveOutcomes, logged \in LogOutcomes :
               LET request == requests[request_id]
                   logged_fields ==
                       SelectSeq(FieldsSet(request, update_data),
                                 LAMBDA field : field # "status_id")
                   rows == [i \in DOMAIN logged_fields |->
                              LET field == logged_fields[i]
                              IN create_field_change(request_id, updated_by,
                                     field,
                                     FieldText(field, request[field]),
                                     FieldText(field, update_data[field]))]
               IN /\ Commit(IF saved
                            THEN Updated(UpdateRequestStamp(request,
                                                            update_data))
                            ELSE requests,
                            0,
                            IF saved /\ logged THEN rows ELSE <<>>)
                  /\ result' = Outcome("update_request", request_id,
                                       IF "status_id" \in DOMAIN update_data
                                       THEN update_data.status_id ELSE None,
                                       request.status_id, saved, "none",
                                       saved /\ rows # <<>> /\ ~logged)
    /\ UNCHANGED <<now, statuses, slaVars>>

\* RequestService.update_request
UpdateRequest == UpdateRequestCall(UpdateData)

create_assign_record(request_id, user_id, old_assignee, new_assignee, comment) ==
    RequestHistory(request_id, "assign",
                   IF old_assignee # None THEN ToString(old_assignee)
                   ELSE NoneStr,
                   ToString(new_assignee), comment, user_id, "assignee_id")

\* RequestService.assign_request, called without assigned_by, the history
\* insert ending as log_outcomes allows
AssignRequestCall(log_outcomes) ==
    /\ \E request_id \in RequestIds :
          IF request_id \notin DOMAIN requests
          THEN Returns(Outcome("assign_request", request_id, None, None,
                               FALSE, "not_found", FALSE))
          ELSE \E assignee_id \in AssigneeIds, comment \in Comments :
               LET request == requests[request_id]
                   raised == IF assignee_id \notin DOMAIN USERS
                             THEN "no_executor"
                             ELSE IF ~is_executor(USERS[assignee_id])
                             THEN "not_executor"
                             ELSE "none"
                   assigned == [request EXCEPT
                                   !.assignee_id = assignee_id,
                                   !.updated_at = now,
                                   !.status_id = IF is_new(request)
                                                 THEN 2 ELSE @]
               IN IF raised # "none"
                  THEN Returns(Outcome("assign_request", request_id, None,
                                       request.status_id, FALSE, raised,
                                       FALSE))
                  ELSE \E saved \in SaveOutcomes, logged \in log_outcomes :
                       /\ Commit(IF saved THEN Updated(assigned)
                                 ELSE requests,
                                 0,
                                 IF saved /\ logged
                                 THEN <<create_assign_record(request_id,
                                            assignee_id, request.assignee_id,
                                            assignee_id, comment)>>
                                 ELSE <<>>)
                       /\ result' = Notifying(
                              Outcome("assign_request", request_id,
                                      None, request.status_id, saved,
                                      "none", saved /\ ~logged),
                              saved, "assignment")
    /\ UNCHANGED <<now, statuses, slaVars>>

\* RequestService.assign_request
AssignRequest == AssignRequestCall(LogOutcomes)

create_comment_record(request_id, user_id, comment) ==
    RequestHistory(request_id, "comment", NoneStr, comment, comment, user_id,
                   NoneStr)

\* add_comment saving the ticket as well, which stamps updated_at
AddComment_touching ==
    /\ \E request_id \in RequestIds :
          IF request_id \notin DOMAIN requests
          THEN Returns(Outcome("add_comment", request_id, None, None,
                               FALSE, "none", FALSE))
          ELSE \E user_id \in ActorIds, comment \in Comments,
                  logged \in LogOutcomes :
               /\ Commit(Updated([requests[request_id] EXCEPT
                                     !.updated_at = now + 1]),
                         0,
                         IF logged
                         THEN <<create_comment_record(request_id, user_id,
                                                      comment)>>
                         ELSE <<>>)
               /\ result' = Notifying(
                      Outcome("add_comment", request_id, None,
                              requests[request_id].status_id, logged,
                              "none", ~logged),
                      logged, "new_comment")
    /\ UNCHANGED <<now, statuses, slaVars>>

\* RequestService.add_comment: every error is caught and answered with False
AddComment ==
    /\ \E request_id \in RequestIds :
          IF request_id \notin DOMAIN requests
          THEN Returns(Outcome("add_comment", request_id, None, None,
                               FALSE, "none", FALSE))
          ELSE \E user_id \in ActorIds, comment \in Comments,
                  logged \in LogOutcomes :
               /\ Commit(requests, 0,
                         IF logged
                         THEN <<create_comment_record(request_id, user_id,
                                                      comment)>>
                         ELSE <<>>)
               /\ result' = Notifying(
                      Outcome("add_comment", request_id, None,
                              requests[request_id].status_id, logged,
                              "none", ~logged),
                      logged, "new_comment")
    /\ UNCHANGED <<now, statuses, slaVars>>

\* RequestHistory.ACTIONS (ACTIONS is a reserved word)
RequestHistory_ACTIONS ==
    {"create", "status_change", "assign", "comment", "attachment_add",
     "attachment_remove", "field_change", "priority_change",
     "category_change", "satisfaction", "reopen", "close"}

\* RequestService.delete_request: every error is caught and answered with
\* False. The soft branch saves the flag and then builds a history entry with
\* action 'delete', which RequestHistory.validate refuses; for a ticket that
\* is not found it returns an unbound local.
DeleteRequest ==
    /\ \E request_id \in RequestIds, soft_delete \in BOOLEAN :
          IF soft_delete
          THEN IF request_id \notin DOMAIN requests
               THEN Returns(Outcome("delete_request", request_id, None, None,
                                    FALSE, "none", FALSE))
               ELSE \E saved \in SaveOutcomes :
                    LET request == requests[request_id]
                        success == saved /\ "delete" \in RequestHistory_ACTIONS
                    IN /\ Commit(IF saved
                                 THEN Updated([request EXCEPT
                                                  !.is_deleted = TRUE])
                                 ELSE requests,
                                 0, <<>>)
                       /\ result' = Outcome("delete_request", request_id,
                                            None, request.status_id, success,
                                            "none", FALSE)
          ELSE /\ Commit([id \in DOMAIN requests \ {request_id} |->
                             requests[id]], 0, <<>>)
               /\ result' = Outcome("hard_delete_request", request_id, None,
                                    IF request_id \in DOMAIN requests
                                    THEN requests[request_id].status_id
                                    ELSE None,
                                    request_id \in DOMAIN requests, "none",
                                    FALSE)
    /\ UNCHANGED <<now, statuses, slaVars>>

\* a caller loads a ticket, calls Request.resolve() on it and saves it with
\* RequestRepository.update
ResolveRequest ==
    /\ \E request_id \in DOMAIN requests, saved \in SaveOutcomes :
          /\ Commit(IF saved THEN Updated(resolve(requests[request_id], now))
                    ELSE requests, 0, <<>>)
          /\ result' = Outcome("resolve", request_id, None,
                               requests[request_id].status_id, saved, "none",
                               FALSE)
    /\ UNCHANGED <<now, statuses, slaVars>>

\* RequestHistoryRepository.delete, inherited from BaseRepository
HistoryRepoDelete ==
    /\ \E id \in 1..MaxHistory :
          /\ history' = SelectSeq(history, LAMBDA h : h.id # id)
          /\ result' = Outcome("history_repo.delete", id, None, None,
                               \E i \in DOMAIN history : history[i].id = id,
                               "none", FALSE)
    /\ UNCHANGED <<now, requests, sqlite_sequence, statuses, slaVars>>

\* RequestHistoryRepository.update: logs a warning and answers False
HistoryRepoUpdate ==
    /\ \E i \in DOMAIN history :
          result' = Outcome("history_repo.update", history[i].id, None, None,
                            FALSE, "none", FALSE)
    /\ UNCHANGED <<now, requests, history, sqlite_sequence, statuses, slaVars>>

Configured(catalog) == {id \in DOMAIN catalog : catalog[id].next_statuses # {}}

\* the administrator's menu, _configure_single_status_transitions: the other
\* statuses picked become the status's next_statuses
ConfigureTransitions ==
    /\ \E selected_id \in ConfigurableStatusIds, picked \in NextStatusLists,
          saved \in SaveOutcomes :
          LET selected_ids == picked \ {selected_id}
              after == IF saved
                       THEN [statuses EXCEPT
                                ![selected_id].next_statuses = selected_ids]
                       ELSE statuses
          IN /\ Cardinality(Configured(after)) <= MaxConfigured
             /\ statuses' = after
             /\ result' = Outcome("configure_transitions", None, selected_id,
                                  None, saved, "none", FALSE)
    /\ UNCHANGED <<now, requests, history, sqlite_sequence, slaVars>>

\* the administrator's menu, _reset_all_transitions
ResetAllTransitions ==
    /\ statuses' = [id \in DOMAIN statuses |->
                       [statuses[id] EXCEPT !.next_statuses = {}]]
    /\ result' = Outcome("reset_all_transitions", None, None, None, TRUE,
                         "none", FALSE)
    /\ UNCHANGED <<now, requests, history, sqlite_sequence, slaVars>>

\* time passes
Tick ==
    /\ now < LifeStart + MaxTicks * 60
    /\ now' = now + 60
    /\ UNCHANGED <<slaVars, lifeVars>>

Init ==
    /\ now = LifeStart
    /\ req = NoCall
    /\ out = NoCall
    /\ checked = NoCall
    /\ LifeInit

Next ==
    \/ Tick
    \/ CreateRequest
    \/ ChangeStatus
    \/ UpdateRequest
    \/ AssignRequest
    \/ AddComment
    \/ DeleteRequest
    \/ ResolveRequest
    \/ HistoryRepoDelete
    \/ HistoryRepoUpdate
    \/ ConfigureTransitions
    \/ ResetAllTransitions

Spec == Init /\ [][Next]_vars

----------------------------------------------------------------------------
\* Claims checked under SpecCalendar.

\* the last call is the non-critical round trip due date -> elapsed hours
IsRoundTrip ==
    /\ out.op = "_calculate_elapsed_hours"
    /\ out.due.op = "calculate_due_date"
    /\ ~out.critical

\* C2: for every start instant and every whole sla_hours >= 1, the elapsed
\* business hours from start to calculate_due_date(start, sla_hours, False)
\* are exactly sla_hours.
C2_RoundTripExact ==
    IsRoundTrip => out.value = out.due.sla_hours * 60

\* the instants [start, end) stepped by one hour whose weekday is a working
\* day and whose hour-of-day is in [work_start, work_end)
WorkingSteps(start, end) ==
    {k \in 0..((end - start) \div 60) :
        /\ start + k * 60 < end
        /\ weekday(start + k * 60) \in WORK_DAYS
        /\ hour(start + k * 60) >= WORK_HOURS_START
        /\ hour(start + k * 60) < WORK_HOURS_END}

\* Friday 17:00, the following Monday 10:00, Monday 08:00, Tuesday 09:00
Fri17 == 4 * 1440 + 17 * 60
NextMon10 == 7 * 1440 + 10 * 60
Mon08 == 8 * 60
Tue09 == 1440 + 9 * 60

\* C4: for a non-critical measurement with start < end the elapsed business
\* hours are the number of one-hour steps in [start, end) that fall in working
\* time; Friday 17:00 to Monday 10:00 gives 2 and Monday 08:00 to Tuesday
\* 09:00 gives 9.
C4_ElapsedCountsWorkingSteps ==
    (out.op = "_calculate_elapsed_hours" /\ ~out.critical /\ out.start < out.end)
        => /\ out.value = Cardinality(WorkingSteps(out.start, out.end)) * 60
           /\ (out.start = Fri17 /\ out.end = NextMon10) => out.value = 2 * 60
           /\ (out.start = Mon08 /\ out.end = Tue09) => out.value = 9 * 60

\* C4 witness: Friday 17:00 to Monday 10:00 has been measured as 2 hours.
C4_Witness ==
    /\ out.op = "_calculate_elapsed_hours"
    /\ ~out.critical
    /\ out.start = Fri17
    /\ out.end = NextMon10
    /\ out.value = 2 * 60

----------------------------------------------------------------------------
\* Claims checked under SpecSla.

\* C3: a ticket measured by calculate_sla at the instant equal to the due_date
\* the report names has percentage 100, is compliant and has no overrun.
C3_AtDueDateFull ==
    (/\ out.op = "calculate_sla"
     /\ out.request.resolved_at = None
     /\ out.now = out.value.due_date)
        => /\ out.value.percentage = 10000
           /\ out.value.is_compliant
           /\ out.value.overrun_hours = 0

\* C5: for a critical ticket the elapsed hours are the wall-clock hours
\* between start and end whatever the weekday and hour (0 when end <= start),
\* and a critical ticket (limit 2 h) measured exactly 2 h after its creation
\* is compliant at 100 percent.
C5_CriticalWallClock ==
    /\ (out.op = "_calculate_elapsed_hours" /\ out.critical)
          => out.value = IF out.end <= out.start THEN 0 ELSE out.end - out.start
    /\ (/\ out.op = "calculate_sla"
        /\ out.request.priority = "critical"
        /\ out.request.resolved_at = None
        /\ out.now = out.request.created_at + 2 * 60)
          => /\ out.value.is_compliant
             /\ out.value.percentage = 10000
             /\ out.value.elapsed_hours = 200

\* C5 witness: a critical ticket created at 23:00 has been measured at 01:00.
C5_Witness ==
    /\ out.op = "calculate_sla"
    /\ out.request.priority = "critical"
    /\ out.request.resolved_at = None
    /\ hour(out.request.created_at) = 23
    /\ out.now = out.request.created_at + 2 * 60
    /\ out.value.is_compliant
    /\ out.value.percentage = 10000

\* C6: once a ticket has resolved_at set, check_sla_compliance returns the same
\* boolean at every later reading of the clock.
C6_ResolvedComplianceStable ==
    (/\ out.op = "check_sla_compliance"
     /\ out.request.resolved_at # None
     /\ checked.op = "check_sla_compliance")
        => out.value = checked.value

\* C6 witness: a resolved ticket found in breach is checked again at a later
\* reading of the clock.
C6_Witness ==
    /\ out.op = "check_sla_compliance"
    /\ out.request.resolved_at # None
    /\ checked.op = "check_sla_compliance"
    /\ out.now > checked.now
    /\ ~out.value

\* a resolved ticket found compliant is checked again later
C6_WitnessCompliant ==
    /\ out.op = "check_sla_compliance"
    /\ out.request.resolved_at # None
    /\ checked.op = "check_sla_compliance"
    /\ out.now > checked.now
    /\ out.value

\* SpecStatus: the operations that write a ticket's status_id and the
\* administrator's configuration of the catalog, at one reading of the clock.
NextStatus ==
    \/ CreateRequest
    \/ ChangeStatus
    \/ UpdateRequest
    \/ AssignRequest
    \/ ResolveRequest
    \/ ConfigureTransitions
    \/ ResetAllTransitions

SpecStatus == Init /\ [][NextStatus]_vars

----------------------------------------------------------------------------
\* Claims checked under Spec.

\* C1: a change_status call on a ticket whose status is flagged is_final, to a
\* different status, fails with the transition-guard error and leaves the
\* ticket's status_id as it was, whatever next_statuses holds (calls that
\* fail only because the database refused the write are left aside).
C1_FinalStatusGuarded ==
    (/\ result.op = "change_status"
     /\ result.old_status_id \in DOMAIN statuses
     /\ statuses[result.old_status_id].is_final
     /\ result.status_id # result.old_status_id
     /\ result.ok \/ result.raised # "none")
        => /\ result.raised = "transition"
           /\ requests[result.request_id].status_id = result.old_status_id

\* C7 (under SpecStatus): change_status from a status with a non-empty
\* next_statuses succeeds only for targets in the list and is rejected with
\* the transition-guard error for every other target; with next_statuses
\* empty or absent this guard rejects no target.
C7_NextStatusesGuard ==
    (/\ result.op = "change_status"
     /\ result.old_status_id \in DOMAIN statuses)
        => LET allowed == statuses[result.old_status_id].next_statuses
           IN IF allowed # {}
              THEN /\ result.ok => result.status_id \in allowed
                   /\ result.status_id \in allowed
                         => result.raised # "transition"
                   /\ result.status_id \notin allowed
                         => /\ result.raised = "transition"
                            /\ ~result.ok
                            /\ requests[result.request_id].status_id
                                  = result.old_status_id
              ELSE result.raised # "transition"

\* C7 witness: from a status with next_statuses = [2, 3] a change to status 5
\* has been rejected by the transition guard.
C7_Witness ==
    /\ result.op = "change_status"
    /\ result.old_status_id \in DOMAIN statuses
    /\ statuses[result.old_status_id].next_statuses = {2, 3}
    /\ result.status_id = 5
    /\ result.raised = "transition"
    /\ requests[result.request_id].status_id = result.old_status_id

\* from a status with next_statuses = [2, 3] a change to status 2 was accepted
C7_WitnessAccepted ==
    /\ result.op = "change_status"
    /\ result.old_status_id \in DOMAIN statuses
    /\ statuses[result.old_status_id].next_statuses = {2, 3}
    /\ result.status_id = 2
    /\ result.ok
    /\ requests[result.request_id].status_id = 2

\* C8: resolved_at of a ticket, once set, never changes, and it is set only by
\* a step that takes the ticket into the resolved status.
C8_ResolvedAtWrittenOnce ==
    [][\A id \in DOMAIN requests \cap DOMAIN requests' :
          /\ requests[id].resolved_at # None
                => requests'[id].resolved_at = requests[id].resolved_at
          /\ (requests[id].resolved_at = None
              /\ requests'[id].resolved_at # None)
                => /\ requests'[id].status_id = 3
                   /\ requests[id].status_id # 3]_vars

\* C9: after a successful change_status or update_request that changed the
\* ticket's status_id, with every history insert accepted, the newest history
\* entry is a status_change of that ticket holding the old and new status id.
C9_StatusChangeLogged ==
    (/\ result.op \in {"change_status", "update_request"}
     /\ result.ok
     /\ ~result.history_failed
     /\ result.request_id \in DOMAIN requests
     /\ requests[result.request_id].status_id # result.old_status_id)
        => /\ history # <<>>
           /\ LET h == history[Len(history)]
              IN /\ h.request_id = result.request_id
                 /\ h.action = "status_change"
                 /\ h.old_value = ToString(result.old_status_id)
                 /\ h.new_value
                       = ToString(requests[result.request_id].status_id)

\* C10: no step modifies or removes a history entry: every entry stays where
\* it is, as it was written.
C10_HistoryAppendOnly ==
    [][\A i \in DOMAIN history :
          i \in DOMAIN history' /\ history'[i] = history[i]]_vars

\* C11: after delete_request with soft_delete=True on an existing ticket whose
\* flag has been stored, the row is still there with is_deleted true, the call
\* reported success and the newest history entry is a 'delete' entry of that
\* ticket.
C11_SoftDeleteLogged ==
    (/\ result.op = "delete_request"
     /\ result.old_status_id # None
     /\ result.request_id \in DOMAIN requests
     /\ requests[result.request_id].is_deleted)
        => /\ result.ok
           /\ history # <<>>
           /\ history[Len(history)].request_id = result.request_id
           /\ history[Len(history)].action = "delete"

C12_WitnessCritical ==
    /\ result.op = "create_request"
    /\ result.ok
    /\ result.request_id \in DOMAIN requests
    /\ requests[result.request_id].priority = "critical"
    /\ requests[result.request_id].sla_due_date
          = requests[result.request_id].created_at + 24 * 60

----------------------------------------------------------------------------
\* The status catalog under the administrator's editing.

\* the statuses the administrator edits
EditableStatusIds == {1, 2}
\* the comments change_status is called with: None, the empty string, a text
CommentsOrNone == {NoneStr, ""} \cup Comments

\* the administrator's menu, edit_status: the answers given for the flags
\* is_initial and requires_comment are stored with StatusRepository.update
EditStatus ==
    /\ \E selected_id \in EditableStatusIds, is_initial \in BOOLEAN,
          requires_comment \in BOOLEAN, saved \in SaveOutcomes :
          /\ statuses' =
                IF saved
                THEN [statuses EXCEPT
                         ![selected_id].is_initial = is_initial,
                         ![selected_id].requires_comment = requires_comment]
                ELSE statuses
          /\ result' = Outcome("edit_status", None, selected_id, None, saved,
                               "none", FALSE)
    /\ UNCHANGED <<now, requests, history, sqlite_sequence, slaVars>>

NextCatalog ==
    \/ CreateRequest
    \/ ChangeStatusCall(TargetStatusIds, CommentsOrNone, LogOutcomes)
    \/ AssignRequest
    \/ EditStatus

SpecCatalog == Init /\ [][NextCatalog]_vars

\* C13: an assign_request that succeeds has an assignee with the role
\* executor or admin, stores that assignee, takes the ticket to status 2 (in
\* progress) exactly when its status was one flagged is_initial and otherwise
\* leaves the status as it was, and its 'assign' entry, holding the new
\* assignee, is the newest entry of the history.
C13_AssignAdvancesInitial ==
    (/\ result.op = "assign_request"
     /\ result.ok
     /\ ~result.history_failed)
        => /\ result.request_id \in DOMAIN requests
           /\ LET request == requests[result.request_id]
                  old_status_id == result.old_status_id
              IN /\ request.assignee_id \in DOMAIN USERS
                 /\ USERS[request.assignee_id] \in {"executor", "admin"}
                 /\ request.status_id =
                       IF /\ old_status_id \in DOMAIN statuses
                          /\ statuses[old_status_id].is_initial
                       THEN 2
                       ELSE old_status_id
                 /\ history # <<>>
                 /\ history[Len(history)].request_id = result.request_id
                 /\ history[Len(history)].action = "assign"
                 /\ history[Len(history)].new_value
                       = ToString(request.assignee_id)

\* C14: a change_status to a status flagged requires_comment succeeds only
\* with a comment that is neither None nor empty: the entry a successful call
\* writes, which stores the comment it was given, never holds a missing one.
C14_CommentRequired ==
    (/\ result.op = "change_status"
     /\ result.ok
     /\ ~result.history_failed
     /\ result.status_id \in DOMAIN statuses
     /\ statuses[result.status_id].requires_comment)
        => /\ history # <<>>
           /\ history[Len(history)].action = "status_change"
           /\ history[Len(history)].comment \notin {NoneStr, ""}

\* C15: after a successful change_status into status 3 (resolved), the
\* actual_hours of a ticket that is not critical is the working time between
\* created_at and the resolved_at just stamped, as _calculate_work_hours
\* counts it for the SLA.
C15_ActualHoursBusiness ==
    (/\ result.op = "change_status"
     /\ result.ok
     /\ result.status_id = 3
     /\ result.request_id \in DOMAIN requests
     /\ requests[result.request_id].priority # "critical")
        => LET request == requests[result.request_id]
           IN /\ request.resolved_at = now
              /\ request.actual_hours =
                    _calculate_work_hours(request.created_at,
                                          request.resolved_at)

----------------------------------------------------------------------------
\* The lifecycle operations with ids that do not resolve and with history
\* inserts the database refuses.

\* an id that is in no row of statuses
MissingStatusId == 6

NextFaults ==
    \/ CreateRequest
    \/ ChangeStatusCall(TargetStatusIds \cup {MissingStatusId}, Comments,
                        BOOLEAN)
    \/ AssignRequestCall(BOOLEAN)

SpecFaults == Init /\ [][NextFaults]_vars

\* C16: a change_status or assign_request call whose ticket id, or a
\* change_status call whose new status id, is in no row raises the not-found
\* error and leaves every ticket and the history as they were (calls in
\* which the database refused a write are left aside).
C16_NotFoundRaises ==
    [][(/\ result'.op \in {"change_status", "assign_request"}
        /\ result'.ok \/ result'.raised # "none"
        /\ ~result'.history_failed
        /\ \/ result'.request_id \notin DOMAIN requests
           \/ /\ result'.op = "change_status"
              /\ result'.status_id \notin DOMAIN statuses)
          => /\ result'.raised = "not_found"
             /\ requests' = requests
             /\ history' = history]_vars

\* C17: a create_request, change_status or assign_request call that passed
\* its guards and whose ticket write the database refused (it returns None or
\* False) appends no history entry and calls no notification.
C17_FailedWriteAborts ==
    [][(/\ result'.op \in {"create_request", "change_status",
                           "assign_request"}
        /\ result'.raised = "none"
        /\ ~result'.ok)
          => /\ history' = history
             /\ result'.notified = "none"]_vars

\* C18: a change_status or assign_request call reports success only with its
\* history entry appended: after a call that returned True, having stored a
\* new status or an assignee, the newest entry of the history is the
\* 'status_change' or 'assign' entry of that ticket.
C18_HistoryFailureFails ==
    (/\ result.op \in {"change_status", "assign_request"}
     /\ result.ok
     /\ result.op = "change_status"
           => result.status_id # result.old_status_id)
        => /\ history # <<>>
           /\ history[Len(history)].request_id = result.request_id
           /\ history[Len(history)].action =
                 IF result.op = "change_status" THEN "status_change"
                 ELSE "assign"

----------------------------------------------------------------------------
\* The operations on an existing ticket, update_request also with a due date.

\* an update_data that names sla_due_date: a week after the first creation
DueDateUpdates == {[sla_due_date |-> LifeStart + 7 * 24 * 60]}

\* an update_data that names resolved_at: an hour before the first creation
ResolvedAtUpdates == {[resolved_at |-> LifeStart - 60]}

NextFrame ==
    \/ CreateRequest
    \/ AssignRequest
    \/ ChangeStatus
    \/ AddComment
    \/ UpdateRequestCall(UpdateData \cup DueDateUpdates \cup ResolvedAtUpdates)
    \/ DeleteRequest

SpecFrame == Init /\ [][NextFrame]_vars

\* C19: no step changes the sla_due_date of a ticket that exists before and
\* after it.
C19_DueDateFixed ==
    [][\A id \in DOMAIN requests \cap DOMAIN requests' :
          requests'[id].sla_due_date = requests[id].sla_due_date]_vars

----------------------------------------------------------------------------
\* SLAService.get_sla_summary over lists of tickets.

\* Request.reject() at the given reading of the clock
reject(request, clock) ==
    [request EXCEPT !.status_id = 5, !.updated_at = clock]

\* get_sla_summary counting every ticket, finished or not
get_sla_summary_all(list, clock) ==
    LET total == Len(list)
        compliant == Cardinality({i \in DOMAIN list :
                                     check_sla_compliance(list[i], clock)})
        breached == Cardinality({i \in DOMAIN list :
                                    ~check_sla_compliance(list[i], clock)})
    IN IF total = 0
       THEN [total |-> 0, compliant |-> 0, breached |-> 0,
             compliance_rate |-> 0]
       ELSE [total |-> total, compliant |-> compliant, breached |-> breached,
             compliance_rate |->
                 IF compliant + breached > 0
                 THEN RoundDiv(compliant * 10000, compliant + breached)
                 ELSE 0]

\* SLAService.get_sla_summary at the instant clock; compliance_rate is in
\* hundredths of a percent (round(x, 2))
get_sla_summary(list, clock) ==
    LET total == Len(list)
        compliant == Cardinality({i \in DOMAIN list :
                                     /\ is_finished(list[i])
                                     /\ check_sla_compliance(list[i], clock)})
        breached == Cardinality({i \in DOMAIN list :
                                    /\ is_finished(list[i])
                                    /\ ~check_sla_compliance(list[i], clock)})
    IN IF total = 0
       THEN [total |-> 0, compliant |-> 0, breached |-> 0,
             compliance_rate |-> 0]
       ELSE [total |-> total, compliant |-> compliant, breached |-> breached,
             compliance_rate |->
                 IF compliant + breached > 0
                 THEN RoundDiv(compliant * 10000, compliant + breached)
                 ELSE 0]

\* the longest list summarised
MaxList == 4

\* the tickets of the lists: created on Monday 09:00, critical (limit 2 h by
\* the clock) or high (limit 8 working hours), and then left open, resolved
\* after 1 hour, resolved after 10 hours, or rejected
SummaryCreated == 9 * 60
SummaryTickets ==
    LET fresh == {NewRequest(SummaryCreated, p) : p \in {"critical", "high"}}
    IN fresh
       \cup {resolve(r, SummaryCreated + d * 60) : r \in fresh, d \in {1, 10}}
       \cup {reject(r, SummaryCreated + 60) : r \in fresh}

InitSummary ==
    /\ now = SummaryCreated + 10 * 60
    /\ req = <<>>
    /\ out = NoCall
    /\ checked = NoCall
    /\ LifeInit

\* the caller's list grows by a ticket
ListAppend ==
    /\ Len(req) < MaxList
    /\ \E request \in SummaryTickets : req' = Append(req, request)
    /\ UNCHANGED <<now, out, checked, lifeVars>>

CallGetSlaSummary ==
    /\ out' = [op |-> "get_sla_summary", requests |-> req, now |-> now,
               summary |-> get_sla_summary(req, now)]
    /\ UNCHANGED <<now, req, checked, lifeVars>>

NextSummary ==
    \/ ListAppend
    \/ CallGetSlaSummary

SpecSummary == InitSummary /\ [][NextSummary]_vars

\* the finished tickets of a list and, of those, the ones within their SLA
Terminal(list) == {i \in DOMAIN list : list[i].status_id \in {3, 4, 5}}
Compliant(list, clock) ==
    {i \in Terminal(list) : check_sla_compliance(list[i], clock)}

\* C20 as amended: get_sla_summary returns total = the length of the list,
\* compliant = the finished tickets check_sla_compliance accepts, breached =
\* the finished tickets it refuses (tickets not finished are in neither), and
\* compliance_rate = compliant / (compliant + breached) * 100 rounded to two
\* decimals, 0 when no ticket is finished.
C20_SummaryRounded ==
    out.op = "get_sla_summary"
        => LET list == out.requests
               s == out.summary
               terminal == Cardinality(Terminal(list))
           IN /\ s.total = Len(list)
              /\ s.compliant = Cardinality(Compliant(list, out.now))
              /\ s.breached = terminal - s.compliant
              /\ s.compliant + s.breached = terminal
              /\ terminal = 0 => s.compliance_rate = 0
              /\ terminal > 0 =>
                    /\ 2 * (s.compliance_rate * terminal
                                - s.compliant * 10000) <= terminal
                    /\ 2 * (s.compliant * 10000
                                - s.compliance_rate * terminal) <= terminal

\* C20: the compliance_rate returned is compliant / (compliant + breached) *
\* 100 exactly (0 when no ticket is finished).
C20_RateExact ==
    out.op = "get_sla_summary"
        => LET s == out.summary
           IN IF s.compliant + s.breached = 0
              THEN s.compliance_rate = 0
              ELSE s.compliance_rate * (s.compliant + s.breached)
                      = s.compliant * 10000

\* a list of an open ticket, a compliant one and two breached ones: one of
\* three finished tickets is compliant, and the rate returned is 33.33
C20_Witness ==
    /\ out.op = "get_sla_summary"
    /\ out.summary.total = 4
    /\ \E i \in DOMAIN out.requests : out.requests[i].status_id = 1
    /\ out.summary.compliant = 1
    /\ out.summary.breached = 2
    /\ out.summary.compliance_rate = 3333

----------------------------------------------------------------------------
\* The SLA calculator on tickets that have no created_at.

\* a Request built without created_at, as the dataclass defaults leave it
InitMalformed ==
    /\ req \in {NewRequest(None, p) : p \in PRIORITIES}
    /\ now = LifeStart
    /\ out = NoCall
    /\ checked = NoCall
    /\ LifeInit

\* Request.reject()
RequestReject ==
    /\ req' = reject(req, now)
    /\ req' # req
    /\ checked' = NoCall
    /\ UNCHANGED <<now, out, lifeVars>>

NextMalformed ==
    \/ Tick
    \/ RequestResolve
    \/ RequestReopened
    \/ RequestReject
    \/ CallCalculateSla
    \/ CallCheckSlaCompliance

SpecMalformed == InitMalformed /\ [][NextMalformed]_vars

\* C21: for a ticket without created_at, calculate_sla returns the fallback
\* report (compliant, elapsed_hours 0, limit 24, overrun_hours 0, no due
\* date) and check_sla_compliance returns true, whether the ticket is
\* finished or not.
C21_MalformedFallback ==
    (out.op \in {"calculate_sla", "check_sla_compliance"}
     /\ out.request.created_at = None)
        => IF out.op = "calculate_sla"
           THEN /\ out.value.is_compliant
                /\ out.value.elapsed_hours = 0
                /\ out.value.sla_limit = 24
                /\ out.value.overrun_hours = 0
                /\ out.value.due_date = None
           ELSE out.value = TRUE

\* check_sla_compliance on an unfinished critical ticket without created_at,
\* the path that goes through calculate_sla
C21_Witness ==
    /\ out.op = "check_sla_compliance"
    /\ out.request.created_at = None
    /\ out.request.priority = "critical"
    /\ ~is_finished(out.request)
    /\ out.value = TRUE

\* calculate_sla on a finished ticket without created_at
C21_WitnessFinished ==
    /\ out.op = "calculate_sla"
    /\ out.request.created_at = None
    /\ is_finished(out.request)
    /\ out.request.resolved_at # None
    /\ out.value.sla_limit = 24

\* C22: a step never changes the status_id of a ticket whose status is
\* flagged is_final.
C22_FinalAbsorbing ==
    [][\A id \in DOMAIN requests \cap DOMAIN requests' :
          (/\ requests[id].status_id \in DOMAIN statuses
           /\ statuses[requests[id].status_id].is_final)
             => requests'[id].status_id = requests[id].status_id]_vars

\* C23: every stored ticket has created_at <= updated_at and, when
\* resolved_at is set, resolved_at >= created_at.
C23_TimestampsOrdered ==
    \A id \in DOMAIN requests :
        /\ requests[id].created_at <= requests[id].updated_at
        /\ requests[id].resolved_at # None
              => requests[id].resolved_at >= requests[id].created_at

----------------------------------------------------------------------------
\* Comments on tickets in any status.

NextComment ==
    \/ CreateRequest
    \/ ChangeStatus
    \/ AddComment
    \/ Tick

SpecComment == Init /\ [][NextComment]_vars

\* C24: an add_comment step (a step that is not the clock's) on an existing
\* ticket, its history insert accepted, leaves every ticket as it was and
\* appends exactly one entry, a 'comment' entry of that ticket.
C24_CommentAppendsOnly ==
    [][(/\ now' = now
        /\ result'.op = "add_comment"
        /\ result'.request_id \in DOMAIN requests
        /\ ~result'.history_failed)
          => /\ requests' = requests
             /\ Len(history') = Len(history) + 1
             /\ SubSeq(history', 1, Len(history)) = history
             /\ history'[Len(history')].action = "comment"
             /\ history'[Len(history')].request_id = result'.request_id
             /\ result'.ok]_vars

\* a comment added to a ticket an hour after the ticket was last written:
\* the entry carries the time of the comment, updated_at the earlier time
C24_Witness ==
    /\ result.op = "add_comment"
    /\ result.ok
    /\ result.request_id \in DOMAIN requests
    /\ requests[result.request_id].updated_at < now
    /\ Len(history) = 2
    /\ history[Len(history)].action = "comment"
    /\ history[Len(history)].changed_at = now

----------------------------------------------------------------------------
\* Reading the history of a ticket.

\* RequestHistoryRepository.find_by_request: the lists the query
\* SELECT ... WHERE request_id = ? ORDER BY changed_at DESC can return, rows
\* of equal changed_at in any order
find_by_request(request_id) ==
    LET rows == SelectSeq(history, LAMBDA h : h.request_id = request_id)
        n == Len(rows)
        orders == {p \in [1..n -> 1..n] :
                      /\ \A i, j \in 1..n : i # j => p[i] # p[j]
                      /\ \A i, j \in 1..n :
                            i < j => rows[p[i]].changed_at
                                        >= rows[p[j]].changed_at}
    IN {[i \in 1..n |-> rows[p[i]]] : p \in orders}

\* C25: in every list find_by_request returns for a ticket, an entry that
\* comes before another has a changed_at that is not later.
C25_HistoryAscending ==
    \A request_id \in RequestIds :
        \A entries \in find_by_request(request_id) :
            \A i, j \in DOMAIN entries :
                i < j => entries[i].changed_at <= entries[j].changed_at

\* C26: for the ticket a create_request has just stored, the due_date
\* calculate_sla reports is the sla_due_date stored on the ticket.
C26_DueDateAgrees ==
    (/\ result.op = "create_request"
     /\ result.ok
     /\ result.request_id \in DOMAIN requests)
        => calculate_sla(requests[result.request_id], now).due_date
              = requests[result.request_id].sla_due_date

----------------------------------------------------------------------------
\* The SLA calculator on tickets that end without being resolved.

\* tickets created on Monday 08:00 and 09:00
InitTerminal ==
    /\ req \in {NewRequest(t, p) : t \in {LifeStart, LifeStart + 60},
                                   p \in PRIORITIES}
    /\ now = req.created_at
    /\ out = NoCall
    /\ checked = NoCall
    /\ LifeInit

NextTerminal ==
    \/ AdvanceClock
    \/ RequestResolve
    \/ RequestReject
    \/ CallCalculateSla
    \/ CallCheckSlaCompliance

SpecTerminal == InitTerminal /\ [][NextTerminal]_vars

\* C27: the is_compliant calculate_sla reports for a ticket is the value
\* check_sla_compliance returns for the same ticket at the same instant.
C27_ComplianceAgrees ==
    out.op = "calculate_sla"
        => out.value.is_compliant
              = check_sla_compliance(out.request, out.now)

\* C28 (under SpecSla): in a step that advances the clock, the ticket being
\* unresolved and unchanged, the elapsed_hours calculate_sla reports does not
\* decrease, and a report that was not compliant stays not compliant.
C28_ElapsedMonotone ==
    [][(/\ now' > now
        /\ req' = req
        /\ req.resolved_at = None)
          => LET before == calculate_sla(req, now)
                 after == calculate_sla(req, now')
             IN /\ after.elapsed_hours >= before.elapsed_hours
                /\ ~before.is_compliant => ~after.is_compliant]_vars

\* an unresolved ticket found in breach, and reported in breach again by
\* calculate_sla at a later reading of the clock
C28_Witness ==
    /\ checked.op = "check_sla_compliance"
    /\ ~checked.value
    /\ out.op = "calculate_sla"
    /\ out.request.resolved_at = None
    /\ out.now > checked.now
    /\ ~out.value.is_compliant
    /\ out.value.overrun_hours > 100

\* C29 (under SpecCalendar): for a non-critical measurement with start < end
\* the business hours returned do not exceed the time by the clock between
\* start and end (both in minutes).
C29_WorkHoursBounded ==
    (out.op = "_calculate_elapsed_hours" /\ ~out.critical /\ out.start < out.end)
        => out.value <= out.end - out.start

\* C30 (under SpecFrame): a delete_request step that returns False leaves
\* every ticket row and the history as they were.
C30_FailedDeleteChangesNothing ==
    [][(/\ result'.op \in {"delete_request", "hard_delete_request"}
        /\ ~result'.ok)
          => /\ requests' = requests
             /\ history' = history]_vars

====
